---- MODULE Spec2Model ----
(***************************************************************************)
(* The NotifyWorker of package worker: one goroutine runs                  *)
(* notifyWorker.loop (SetUp, then select on tomb.Dying / w.Changes with a  *)
(* Handle call per change, then the deferred watcher.Stop and TearDown),   *)
(* latches the loop's result in the tomb and marks the tomb dead.  Any     *)
(* number of caller goroutines use Kill, Wait and Stop.                    *)
(***************************************************************************)
EXTENDS Naturals, Sequences, FiniteSets

\* ---------------------------------------------------------------- bounds
\* Handle calls the loop may start (a closed Changes channel is always ready).
MaxHandles == 3
\* Notifications the watcher's producer offers on the Changes channel.
MaxChanges == 2
\* Goroutines that call Wait / Stop.
NumCallers == 2

Callers == 1..NumCallers

\* Entities in one logger API request.
MaxEntities == 2
\* Logger API requests made on one end point.
MaxCalls == 2

\* ---------------------------------------------------------------- errors
Nil == "nil"
ErrStillAlive == "ErrStillAlive"
ErrDying == "ErrDying"
SetupError == "setupError"
HandlerError == "handlerError"
StopError == "stopError"
NilWatcherError == "SetUp returned a nil Watcher"
\* "no value yet" for locals and results that have not been assigned
None == "none"

VARIABLES
  pc,        \* position of the goroutine started by NewNotifyWorker
  tomb,      \* nw.tomb: reason, dying (closed), dead (closed), panicked
  w,         \* loop's local w: None before SetUp returns, then Nil or "watcher"
  err,       \* loop's local err, as returned by SetUp
  ret,       \* the value loop() returns
  stopRet,   \* what the watcher's Stop() returned (None: not called)
  log,       \* every SetUp/Handle/TearDown call and every watcher Stop, in order
  failedAt,  \* number of Handle calls made when Handle returned an error (0: none did)
  pending,   \* a producer is blocked sending on the unbuffered Changes channel
  closed,    \* the watcher closed its Changes channel
  sent,      \* notifications offered so far
  killed,    \* some caller has called Kill() or Stop()
  cpc,       \* per caller: "idle", "waiting" (in tomb.Wait), "woken" (saw dead)
  result,    \* per caller: the value its last Wait()/Stop() returned
  killPc,    \* where the loop's goroutine was at the first Kill()/Stop() call
  stopCalled, \* some caller has called Stop()
  api        \* the logger API end point, its resources and its last call

vars == <<pc, tomb, w, err, ret, stopRet, log, failedAt, pending, closed, sent,
          killed, cpc, result, killPc, stopCalled, api>>

loopVars == <<pc, w, err, ret, stopRet, log, failedAt>>
chanVars == <<pending, closed, sent>>
callerVars == <<cpc, result>>
killVars == <<killed, killPc, stopCalled>>

\* ------------------------------------------------------------- the log
RECURSIVE Count(_, _)
Count(s, e) == IF s = <<>> THEN 0
               ELSE (IF Head(s) = e THEN 1 ELSE 0) + Count(Tail(s), e)

IsHandlerAction(e) == e # "stop"
\* ActionsHandler.actions: what the handler itself records
actions == SelectSeq(log, IsHandlerAction)
\* TestWatcher.stopped
stopped == Count(log, "stop") > 0
HandlerCount == Count(log, "handler")
\* position of the first e in the log (0: absent)
Index(e) == IF \E i \in 1..Len(log) : log[i] = e
            THEN CHOOSE i \in 1..Len(log) :
                   log[i] = e /\ \A j \in 1..(i-1) : log[j] # e
            ELSE 0
\* notifications the loop has received from the channel
Delivered == sent - (IF pending THEN 1 ELSE 0)

\* ------------------------------------------------------------- the tomb
\* tomb.Kill(reason)
TombKill(t, reason) ==
  IF reason = ErrDying
  THEN IF t.reason = ErrStillAlive THEN [t EXCEPT !.panicked = TRUE] ELSE t
  ELSE [t EXCEPT !.reason = IF @ \in {Nil, ErrStillAlive} THEN reason ELSE @,
                 !.dying = TRUE]

\* tomb.Done(): Kill(nil), then close(dead)
TombDone(t) == [TombKill(t, Nil) EXCEPT !.dead = TRUE]

\* watcher.Stop(w, &tomb) once w.Stop() has returned stopErr
watcherStop(t, stopErr) == IF stopErr # Nil THEN TombKill(t, stopErr) ELSE t

\* the logger API before NewLoggerAPI: no end point, no resource registered
ApiInit == [facade |-> None, owned |-> {}, resources |-> 0, calls |-> 0,
            call |-> None, args |-> <<>>, oks |-> <<>>, configErr |-> None,
            started |-> 0, results |-> <<>>, panicked |-> FALSE]

Init ==
  /\ pc = "spawned"
  /\ tomb = [reason |-> ErrStillAlive, dying |-> FALSE, dead |-> FALSE,
             panicked |-> FALSE]
  /\ w = None
  /\ err = None
  /\ ret = None
  /\ stopRet = None
  /\ log = <<>>
  /\ failedAt = 0
  /\ pending = FALSE
  /\ closed = FALSE
  /\ sent = 0
  /\ killed = FALSE
  /\ cpc = [c \in Callers |-> "idle"]
  /\ result = [c \in Callers |-> None]
  /\ killPc = None
  /\ stopCalled = FALSE
  /\ api = ApiInit

\* ------------------------------------------------ the loop's goroutine
\* loop(): defer TearDown; call handler.SetUp()
SetUpCall ==
  /\ pc = "spawned"
  /\ log' = Append(log, "setup")
  /\ pc' = "inSetUp"
  /\ UNCHANGED <<tomb, w, err, ret, stopRet, failedAt, chanVars, killVars, callerVars, api>>

\* Mutant: a failed SetUp stops the watcher without checking that it is non-nil.
AfterSetUpStopsNilWatcher(wv, e) ==
  IF e # Nil
  THEN /\ pc' = "setUpStop"
       /\ ret' = ret
  ELSE IF wv = Nil
       THEN /\ pc' = "tearDown"
            /\ ret' = NilWatcherError
       ELSE /\ pc' = "select"
            /\ ret' = ret

\* Mutant: the w == nil check after a successful SetUp is missing.
AfterSetUpNoNilWatcherCheck(wv, e) ==
  IF e # Nil
  THEN IF wv # Nil
       THEN /\ pc' = "setUpStop"
            /\ ret' = ret
       ELSE /\ pc' = "tearDown"
            /\ ret' = e
  ELSE /\ pc' = "select"
       /\ ret' = ret

\* The branch the loop takes on SetUp's return values.
AfterSetUp(wv, e) ==
  IF e # Nil
  THEN IF wv # Nil
       THEN /\ pc' = "setUpStop"
            /\ ret' = ret
       ELSE /\ pc' = "tearDown"
            /\ ret' = e
  ELSE IF wv = Nil
       THEN /\ pc' = "tearDown"
            /\ ret' = NilWatcherError
       ELSE /\ pc' = "select"
            /\ ret' = ret

\* SetUp returns (wv, e)
SetUpReturn ==
  /\ pc = "inSetUp"
  /\ \E wv \in {Nil, "watcher"}, e \in {Nil, SetupError} :
       /\ w' = wv
       /\ err' = e
       /\ AfterSetUp(wv, e)
  /\ UNCHANGED <<tomb, stopRet, log, failedAt, chanVars, killVars, callerVars, api>>

\* Mutant: the failed-SetUp path stops the watcher through watcher.Stop(w, &tomb),
\* so the stop error reaches the tomb.
SetUpFailStopPropagating ==
  /\ pc = "setUpStop"
  /\ \E se \in {Nil, StopError} :
       /\ stopRet' = se
       /\ tomb' = watcherStop(tomb, se)
  /\ log' = Append(log, "stop")
  /\ ret' = err
  /\ pc' = "tearDown"
  /\ UNCHANGED <<w, err, failedAt, chanVars, killVars, callerVars, api>>

\* SetUp failed but returned a watcher: w.Stop(), error dropped; return err
SetUpFailStop ==
  /\ pc = "setUpStop"
  /\ \E se \in {Nil, StopError} : stopRet' = se
  /\ log' = Append(log, "stop")
  /\ ret' = err
  /\ pc' = "tearDown"
  /\ UNCHANGED <<tomb, w, err, failedAt, chanVars, killVars, callerVars, api>>

\* Mutant: the select leaves the loop without the dying signal.
SelectDyingUnguarded ==
  /\ pc = "select"
  /\ ret' = ErrDying
  /\ pc' = "watcherStop"
  /\ UNCHANGED <<tomb, w, err, stopRet, log, failedAt, chanVars, killVars, callerVars, api>>

\* select: case <-nw.tomb.Dying(): return tomb.ErrDying
SelectDying ==
  /\ pc = "select"
  /\ tomb.dying
  /\ ret' = ErrDying
  /\ pc' = "watcherStop"
  /\ UNCHANGED <<tomb, w, err, stopRet, log, failedAt, chanVars, killVars, callerVars, api>>

\* select: case <-w.Changes(): call handler.Handle().  A receive is ready when
\* a sender is blocked on the channel or when the channel is closed.
SelectChanges ==
  /\ pc = "select"
  /\ pending \/ closed
  /\ HandlerCount < MaxHandles
  /\ pending' = FALSE
  /\ log' = Append(log, "handler")
  /\ pc' = "inHandle"
  /\ UNCHANGED <<tomb, w, err, ret, stopRet, failedAt, closed, sent, killVars, callerVars, api>>

\* Mutant: a Handle error returns past the watcher's release.
HandleReturnSkipsRelease ==
  /\ pc = "inHandle"
  /\ \E e \in {Nil, HandlerError} :
       IF e # Nil
       THEN /\ ret' = e
            /\ failedAt' = HandlerCount
            /\ pc' = "tearDown"
       ELSE /\ pc' = "select"
            /\ UNCHANGED <<ret, failedAt>>
  /\ UNCHANGED <<tomb, w, err, stopRet, log, chanVars, killVars, callerVars, api>>

\* Mutant: a Handle error is noted but the loop keeps selecting.
HandleReturnKeepsLooping ==
  /\ pc = "inHandle"
  /\ \E e \in {Nil, HandlerError} :
       IF e # Nil
       THEN /\ ret' = e
            /\ failedAt' = HandlerCount
            /\ pc' = "select"
       ELSE /\ pc' = "select"
            /\ UNCHANGED <<ret, failedAt>>
  /\ UNCHANGED <<tomb, w, err, stopRet, log, chanVars, killVars, callerVars, api>>

\* Handle returns e: a non-nil error leaves the loop, nil goes back to select
HandleReturn ==
  /\ pc = "inHandle"
  /\ \E e \in {Nil, HandlerError} :
       IF e # Nil
       THEN /\ ret' = e
            /\ failedAt' = HandlerCount
            /\ pc' = "watcherStop"
       ELSE /\ pc' = "select"
            /\ UNCHANGED <<ret, failedAt>>
  /\ UNCHANGED <<tomb, w, err, stopRet, log, chanVars, killVars, callerVars, api>>

\* Mutant: the deferred release is a plain w.Stop(), its error dropped.
WatcherStopDropsError ==
  /\ pc = "watcherStop"
  /\ \E se \in {Nil, StopError} : stopRet' = se
  /\ log' = Append(log, "stop")
  /\ pc' = "tearDown"
  /\ UNCHANGED <<tomb, w, err, ret, failedAt, chanVars, killVars, callerVars, api>>

\* deferred watcher.Stop(w, &nw.tomb)
WatcherStop ==
  /\ pc = "watcherStop"
  /\ \E se \in {Nil, StopError} :
       /\ stopRet' = se
       /\ tomb' = watcherStop(tomb, se)
  /\ log' = Append(log, "stop")
  /\ pc' = "tearDown"
  /\ UNCHANGED <<w, err, ret, failedAt, chanVars, killVars, callerVars, api>>

\* Mutant: TearDown is deferred a second time, so it runs twice on unwinding.
TearDownTwice ==
  /\ pc = "tearDown"
  /\ log' = log \o <<"teardown", "teardown">>
  /\ pc' = "latch"
  /\ UNCHANGED <<tomb, w, err, ret, stopRet, failedAt, chanVars, killVars, callerVars, api>>

\* deferred nw.handler.TearDown()
TearDown ==
  /\ pc = "tearDown"
  /\ log' = Append(log, "teardown")
  /\ pc' = "latch"
  /\ UNCHANGED <<tomb, w, err, ret, stopRet, failedAt, chanVars, killVars, callerVars, api>>

\* Mutant: the loop's result is latched only if nobody has killed the tomb yet.
LatchLoopResultOnlyIfAlive ==
  /\ pc = "latch"
  /\ tomb' = IF tomb.reason = ErrStillAlive THEN TombKill(tomb, ret) ELSE tomb
  /\ pc' = "done"
  /\ UNCHANGED <<w, err, ret, stopRet, log, failedAt, chanVars, killVars, callerVars, api>>

\* Mutant: the loop's result is stored as the reason without tomb.Kill's filtering.
LatchLoopResultRaw ==
  /\ pc = "latch"
  /\ tomb' = [tomb EXCEPT !.reason = ret, !.dying = TRUE]
  /\ pc' = "done"
  /\ UNCHANGED <<w, err, ret, stopRet, log, failedAt, chanVars, killVars, callerVars, api>>

\* nw.tomb.Kill(nw.loop())
LatchLoopResult ==
  /\ pc = "latch"
  /\ tomb' = TombKill(tomb, ret)
  /\ pc' = "done"
  /\ UNCHANGED <<w, err, ret, stopRet, log, failedAt, chanVars, killVars, callerVars, api>>

\* Mutant: the goroutine ends without tomb.Done().
GoroutineExitsWithoutDone ==
  /\ pc = "done"
  /\ pc' = "exited"
  /\ UNCHANGED <<tomb, w, err, ret, stopRet, log, failedAt, chanVars, killVars, callerVars, api>>

\* deferred nw.tomb.Done()
GoroutineDone ==
  /\ pc = "done"
  /\ tomb' = TombDone(tomb)
  /\ pc' = "exited"
  /\ UNCHANGED <<w, err, ret, stopRet, log, failedAt, chanVars, killVars, callerVars, api>>

\* ------------------------------------------------------- the watcher
\* TestWatcher.TriggerChange: a producer blocks sending on tw.out
TriggerChange ==
  /\ ~pending
  /\ ~closed
  /\ sent < MaxChanges
  /\ pending' = TRUE
  /\ sent' = sent + 1
  /\ UNCHANGED <<loopVars, tomb, closed, killVars, callerVars, api>>

\* The watcher fails: it closes the channel Changes() returns
CloseChanges ==
  /\ w = "watcher"
  /\ ~closed
  /\ ~pending
  /\ closed' = TRUE
  /\ UNCHANGED <<loopVars, tomb, pending, sent, killVars, callerVars, api>>

\* Mutant: Kill interrupts a Handle call in flight and unwinds the loop.
KillPreempts ==
  /\ tomb' = TombKill(tomb, Nil)
  /\ killed' = TRUE
  /\ killPc' = IF killed THEN killPc ELSE pc
  /\ IF pc = "inHandle"
     THEN /\ pc' = "watcherStop"
          /\ ret' = ErrDying
     ELSE UNCHANGED <<pc, ret>>
  /\ UNCHANGED <<w, err, stopRet, log, failedAt, chanVars, callerVars, stopCalled, api>>

\* Mutant: Kill stores its nil reason whatever reason the tomb already holds.
KillOverwrites ==
  /\ tomb' = [tomb EXCEPT !.reason = Nil, !.dying = TRUE]
  /\ killed' = TRUE
  /\ killPc' = IF killed THEN killPc ELSE pc
  /\ UNCHANGED <<loopVars, chanVars, callerVars, stopCalled, api>>

\* ------------------------------------------------------- the callers
\* notifyWorker.Kill
Kill ==
  /\ tomb' = TombKill(tomb, Nil)
  /\ killed' = TRUE
  /\ killPc' = IF killed THEN killPc ELSE pc
  /\ UNCHANGED <<loopVars, chanVars, callerVars, stopCalled, api>>

\* notifyWorker.Wait: enter tomb.Wait
WaitCall(c) ==
  /\ cpc[c] = "idle"
  /\ cpc' = [cpc EXCEPT ![c] = "waiting"]
  /\ UNCHANGED <<loopVars, tomb, chanVars, killVars, result, api>>

\* Mutant: Stop only waits, without tomb.Kill(nil).
StopCallWithoutKill(c) ==
  /\ cpc[c] = "idle"
  /\ killed' = TRUE
  /\ killPc' = IF killed THEN killPc ELSE pc
  /\ stopCalled' = TRUE
  /\ cpc' = [cpc EXCEPT ![c] = "waiting"]
  /\ UNCHANGED <<loopVars, tomb, chanVars, result, api>>

\* notifyWorker.Stop: tomb.Kill(nil), then enter tomb.Wait
StopCall(c) ==
  /\ cpc[c] = "idle"
  /\ tomb' = TombKill(tomb, Nil)
  /\ killed' = TRUE
  /\ killPc' = IF killed THEN killPc ELSE pc
  /\ stopCalled' = TRUE
  /\ cpc' = [cpc EXCEPT ![c] = "waiting"]
  /\ UNCHANGED <<loopVars, chanVars, result, api>>

\* Mutant: Wait wakes on the dying signal instead of the dead signal.
WaitWakeOnDying(c) ==
  /\ cpc[c] = "waiting"
  /\ tomb.dying
  /\ cpc' = [cpc EXCEPT ![c] = "woken"]
  /\ UNCHANGED <<loopVars, tomb, chanVars, killVars, result, api>>

\* tomb.Wait: <-t.dead
WaitWake(c) ==
  /\ cpc[c] = "waiting"
  /\ tomb.dead
  /\ cpc' = [cpc EXCEPT ![c] = "woken"]
  /\ UNCHANGED <<loopVars, tomb, chanVars, killVars, result, api>>

\* tomb.Wait: return t.reason
WaitReturn(c) ==
  /\ cpc[c] = "woken"
  /\ result' = [result EXCEPT ![c] = tomb.reason]
  /\ cpc' = [cpc EXCEPT ![c] = "idle"]
  /\ UNCHANGED <<loopVars, tomb, chanVars, killVars, api>>

Next ==
  \/ SetUpCall
  \/ SetUpReturn
  \/ SetUpFailStop
  \/ SelectDying
  \/ SelectChanges
  \/ HandleReturn
  \/ WatcherStop
  \/ TearDown
  \/ LatchLoopResult
  \/ GoroutineDone
  \/ TriggerChange
  \/ CloseChanges
  \/ Kill
  \/ \E c \in Callers : WaitCall(c)
  \/ \E c \in Callers : StopCall(c)
  \/ \E c \in Callers : WaitWake(c)
  \/ \E c \in Callers : WaitReturn(c)

Spec == Init /\ [][Next]_vars

\* A step of the loop's goroutine other than the select's choice
LoopStep ==
  \/ SetUpCall
  \/ SetUpReturn
  \/ SetUpFailStop
  \/ HandleReturn
  \/ WatcherStop
  \/ TearDown
  \/ LatchLoopResult
  \/ GoroutineDone

\* A step of caller c inside tomb.Wait
WaitStep(c) == WaitWake(c) \/ WaitReturn(c)

\* The scheduler runs the loop's goroutine and the callers that are inside
\* tomb.Wait; SetUp, Handle, the watcher's Stop and TearDown are taken to return.
\* A select with several ready cases picks one at random, so the dying case, ready
\* at every visit once the tomb is dying, is eventually picked (strong fairness).
Fairness ==
  /\ WF_vars(LoopStep)
  /\ SF_vars(SelectDying)
  /\ \A c \in Callers : WF_vars(WaitStep(c))

FairSpec == Spec /\ Fairness


\* ------------------------------------------------- the logger API
workerVars == <<pc, tomb, w, err, ret, stopRet, log, failedAt, pending, closed,
                sent, killed, cpc, result, killPc, stopCalled>>

\* common.ErrPerm
ErrPerm == "permission denied"
\* the error of state.EnvironConfig()
ConfigError == "environ config error"
\* the error of a watcher whose Changes channel was closed (watcher.MustErr)
WatcherError == "watcher error"
\* config.LoggingConfig() of the environment's configuration
EnvLoggingConfig == "<root>=INFO"
\* the zero value of a result's string field
Empty == ""

Tags == {"own", "other"}
\* params.Entities: lists of at most MaxEntities tags
EntityLists == UNION {[1..k -> Tags] : k \in 0..MaxEntities}

\* authorizer.AuthOwner(tag)
AuthOwner(tag) == tag \in api.owned

\* NewLoggerAPI: only machine agents and unit agents get an end point
NewLoggerAPI ==
  /\ api.facade = None
  /\ \E machineAgent, unitAgent \in BOOLEAN, owned \in SUBSET Tags :
       api' = [api EXCEPT
                 !.facade = IF ~machineAgent /\ ~unitAgent THEN ErrPerm ELSE "loggerAPI",
                 !.owned = owned]
  /\ UNCHANGED workerVars

\* Watchers registered for entities 1..i of a request: one per authorized entity
\* whose watcher delivered its initial event.
RECURSIVE Registered(_, _, _)
Registered(args, oks, i) ==
  IF i = 0 THEN 0
  ELSE Registered(args, oks, i - 1)
         + (IF AuthOwner(args[i]) /\ oks[i] THEN 1 ELSE 0)

\* Watchers started for entities 1..i of a request.
RECURSIVE Started(_, _)
Started(args, i) ==
  IF i = 0 THEN 0
  ELSE Started(args, i - 1) + (IF AuthOwner(args[i]) THEN 1 ELSE 0)

\* Mutant: the watcher is registered without looking at the initial event.
WatchEntryAlwaysRegisters(args, oks, i) ==
  IF AuthOwner(args[i])
  THEN [id |-> api.resources + Started(args, i), error |-> Nil]
  ELSE [id |-> 0, error |-> ErrPerm]

\* WatchLoggingConfig: the result for entity i (id 0: no NotifyWatcherId)
WatchEntry(args, oks, i) ==
  IF AuthOwner(args[i])
  THEN IF oks[i]
       THEN [id |-> api.resources + Registered(args, oks, i), error |-> Nil]
       ELSE [id |-> 0, error |-> WatcherError]
  ELSE [id |-> 0, error |-> ErrPerm]

\* loggerAPI.WatchLoggingConfig(args); oks[i]: the watcher started for entity i
\* delivers its initial event
WatchLoggingConfig ==
  /\ api.facade = "loggerAPI"
  /\ ~api.panicked
  /\ api.calls < MaxCalls
  /\ \E args \in EntityLists :
       \E oks \in [1..Len(args) -> BOOLEAN] :
         api' = [api EXCEPT
                   !.call = "WatchLoggingConfig",
                   !.calls = @ + 1,
                   !.args = args,
                   !.oks = oks,
                   !.configErr = None,
                   !.started = Started(args, Len(args)),
                   !.results = [i \in 1..Len(args) |-> WatchEntry(args, oks, i)],
                   !.resources = @ + Registered(args, oks, Len(args))]
  /\ UNCHANGED workerVars

\* LoggingConfig: the result for entity i, given EnvironConfig's error
ConfigEntry(args, configErr, i) ==
  IF AuthOwner(args[i])
  THEN IF configErr # Nil
       THEN [result |-> EnvLoggingConfig, error |-> Nil]
       ELSE [result |-> Empty, error |-> configErr]
  ELSE [result |-> Empty, error |-> ErrPerm]

\* LoggingConfig reads config.LoggingConfig() of the nil config that a failed
\* EnvironConfig returned
DerefsNilConfig(args, configErr) ==
  configErr # Nil /\ \E i \in 1..Len(args) : AuthOwner(args[i])

\* loggerAPI.LoggingConfig(args).  Calling LoggingConfig() on the nil config
\* either panics or yields a string.
LoggingConfig ==
  /\ api.facade = "loggerAPI"
  /\ ~api.panicked
  /\ api.calls < MaxCalls
  /\ \E args \in EntityLists, configErr \in {Nil, ConfigError}, crash \in BOOLEAN :
       api' = [api EXCEPT
                 !.call = "LoggingConfig",
                 !.calls = @ + 1,
                 !.args = args,
                 !.oks = <<>>,
                 !.configErr = configErr,
                 !.started = 0,
                 !.panicked = DerefsNilConfig(args, configErr) /\ crash,
                 !.results = IF DerefsNilConfig(args, configErr) /\ crash
                             THEN <<>>
                             ELSE [i \in 1..Len(args) |-> ConfigEntry(args, configErr, i)]]
  /\ UNCHANGED workerVars

LoggerNext ==
  \/ NewLoggerAPI
  \/ WatchLoggingConfig
  \/ LoggingConfig

LoggerSpec == Init /\ [][LoggerNext]_vars


TypeOK ==
  /\ pc \in {"spawned", "inSetUp", "setUpStop", "select", "inHandle",
             "watcherStop", "tearDown", "latch", "done", "exited"}
  /\ tomb.reason \in {ErrStillAlive, Nil, SetupError, HandlerError, StopError,
                      NilWatcherError}
  /\ ~tomb.panicked
  /\ failedAt \in 0..MaxHandles
  /\ sent \in 0..MaxChanges

\* ------------------------------------------------------------- claims
Returned(c) == result[c] # None
\* SetUp returned a non-nil watcher and a nil error
Adopted == w = "watcher" /\ err = Nil

C2_ReleaseFailureSurfaces ==
  (Adopted /\ killed /\ failedAt = 0 /\ ret = ErrDying /\ stopRet = StopError) =>
    /\ \A c \in Callers : Returned(c) => result[c] = StopError
    /\ pc = "exited" => tomb.reason = StopError

C2_Witness ==
  \E c \in Callers :
    /\ result[c] = StopError
    /\ Adopted /\ killed /\ ret = ErrDying /\ stopRet = StopError
    /\ HandlerCount = 2

\* C3 (as claimed): Handle is not invoked for a closed change signal: once the
\* watcher has closed its Changes channel, no further Handle call starts.
C3_NoHandleOnClosedChanges ==
  [][closed => HandlerCount' = HandlerCount]_vars

\* C4: the watcher is released at most once, and exactly once by the time
\* TearDown has run if SetUp returned one; every Handle call precedes the release
\* and TearDown and has returned before they start; TearDown runs once, as the
\* last logged action, and has run once the goroutine has exited.
C4_ReleaseTearDownOrdering ==
  /\ Count(log, "stop") <= 1
  /\ Count(log, "teardown") <= 1
  /\ \A i, j \in 1..Len(log) :
       (log[i] = "handler" /\ log[j] \in {"stop", "teardown"}) => i < j
  /\ \A i \in 1..Len(log) : log[i] = "teardown" => i = Len(log)
  /\ (w = "watcher" /\ Count(log, "teardown") = 1) => Count(log, "stop") = 1
  /\ pc = "inHandle" => (Count(log, "stop") = 0 /\ Count(log, "teardown") = 0)
  /\ pc = "exited" => Count(log, "teardown") = 1

C4_Witness ==
  /\ pc = "exited"
  /\ Adopted
  /\ ret = HandlerError
  /\ log = <<"setup", "handler", "handler", "stop", "teardown">>

\* C5: a caller that has got past tomb.Wait's dead signal, or has had Wait()/Stop()
\* return, finds the goroutine exited, TearDown run, the watcher (if SetUp
\* returned one) released, and the value returned is the tomb's reason from then on.
C5_WaitObservesFinishedWorker ==
  \A c \in Callers :
    /\ (cpc[c] = "woken" \/ Returned(c)) =>
         /\ tomb.dead
         /\ pc = "exited"
         /\ Count(log, "teardown") = 1
         /\ (w = "watcher" => stopped)
    /\ Returned(c) => result[c] = tomb.reason

C5_Witness ==
  \E c \in Callers :
    /\ Returned(c)
    /\ Adopted
    /\ killed
    /\ HandlerCount = 1

\* C6: once Handle has returned an error on the k-th call, the call count stays
\* k, the loop is out of the wait step, the loop's result is that error; after
\* exit the watcher is released before TearDown; and when the release reported no
\* error every Wait()/Stop() returns the Handle error.
C6_HandleFailureIsFatal ==
  failedAt # 0 =>
    /\ HandlerCount = failedAt
    /\ pc \notin {"select", "inHandle"}
    /\ ret = HandlerError
    /\ pc = "exited" =>
         /\ stopped
         /\ Index("teardown") # 0
         /\ Index("stop") < Index("teardown")
    /\ stopRet = Nil =>
         /\ \A c \in Callers : Returned(c) => result[c] = HandlerError
         /\ pc = "exited" => tomb.reason = HandlerError

C6_Witness ==
  \E c \in Callers :
    /\ result[c] = HandlerError
    /\ failedAt = 2
    /\ stopRet = Nil
    /\ ~killed

\* C7: when SetUp returns a watcher together with an error, Handle is never
\* called, the watcher is stopped once and before TearDown, TearDown runs once,
\* and the tomb's reason and every Wait()/Stop() result is SetUp's error whatever
\* the watcher's Stop returned and whenever Kill was called.
C7_SetUpFailureWithWatcher ==
  (w = "watcher" /\ err = SetupError) =>
    /\ HandlerCount = 0
    /\ Count(log, "stop") <= 1
    /\ Count(log, "teardown") <= 1
    /\ pc \notin {"select", "inHandle", "watcherStop"}
    /\ Index("teardown") # 0 => (stopped /\ Index("stop") < Index("teardown"))
    /\ pc = "exited" => (Count(log, "teardown") = 1 /\ tomb.reason = SetupError)
    /\ \A c \in Callers : Returned(c) => result[c] = SetupError

C7_Witness ==
  \E c \in Callers :
    /\ result[c] = SetupError
    /\ w = "watcher"
    /\ stopRet = StopError
    /\ killed
    /\ log = <<"setup", "stop", "teardown">>

\* C8: when SetUp returns no watcher and an error, no watcher Stop is attempted,
\* Handle is never called, TearDown runs exactly once, and the tomb's reason and
\* every Wait()/Stop() result is SetUp's error.
C8_SetUpFailureWithoutWatcher ==
  (w = Nil /\ err = SetupError) =>
    /\ ~stopped
    /\ stopRet = None
    /\ HandlerCount = 0
    /\ Count(log, "teardown") <= 1
    /\ pc = "exited" => (Count(log, "teardown") = 1 /\ tomb.reason = SetupError)
    /\ \A c \in Callers : Returned(c) => result[c] = SetupError

C8_Witness ==
  \E c \in Callers :
    /\ result[c] = SetupError
    /\ w = Nil
    /\ killed
    /\ log = <<"setup", "teardown">>

\* C9: when SetUp returns neither a watcher nor an error, the loop never reaches
\* the select nor Handle, no watcher Stop is attempted, TearDown runs exactly
\* once, and the tomb's reason and every Wait()/Stop() result is the
\* "SetUp returned a nil Watcher" error.
C9_NilWatcherIsAnError ==
  (w = Nil /\ err = Nil) =>
    /\ pc \notin {"select", "inHandle", "watcherStop", "setUpStop"}
    /\ HandlerCount = 0
    /\ ~stopped
    /\ Count(log, "teardown") <= 1
    /\ pc = "exited" => (Count(log, "teardown") = 1 /\ tomb.reason = NilWatcherError)
    /\ \A c \in Callers : Returned(c) => result[c] = NilWatcherError

C9_Witness ==
  \E c \in Callers :
    /\ result[c] = NilWatcherError
    /\ w = Nil /\ err = Nil
    /\ killed
    /\ log = <<"setup", "teardown">>

\* C10: with an adopted, live watcher, no notification received, a release that
\* reported no error and a Kill()/Stop(), every Wait()/Stop() returns nil, the
\* watcher is stopped and the handler's actions are exactly setup, teardown; the
\* ErrDying sentinel is never a Wait()/Stop() result.
C10_CleanShutdown ==
  \A c \in Callers :
    /\ result[c] # ErrDying
    /\ (Returned(c) /\ Adopted /\ Delivered = 0 /\ ~closed /\ stopRet = Nil /\ killed) =>
         /\ result[c] = Nil
         /\ stopped
         /\ actions = <<"setup", "teardown">>

C10_Witness ==
  \E c \in Callers :
    /\ result[c] = Nil
    /\ Adopted /\ Delivered = 0 /\ ~closed /\ stopRet = Nil /\ killed
    /\ ret = ErrDying

\* C11 (as claimed): while no Handle call has failed, Handle has been called
\* exactly once per notification received from the watcher; a Handle call in
\* progress is the last logged call (no SetUp, release or TearDown runs beside
\* it); and after a Stop() on an adopted watcher the handler's actions are
\* setup, one handler entry per notification, teardown.
C11_OneHandlePerNotification ==
  /\ failedAt = 0 => HandlerCount = Delivered
  /\ pc = "inHandle" => log[Len(log)] = "handler"
  /\ \A c \in Callers :
       (Returned(c) /\ killed /\ ret = ErrDying /\ Adopted /\ failedAt = 0) =>
         /\ Len(actions) = Delivered + 2
         /\ actions[1] = "setup"
         /\ actions[Len(actions)] = "teardown"
         /\ \A i \in 2..(Len(actions) - 1) : actions[i] = "handler"

\* C12: the tomb never panics; a step of a caller (Kill, Stop, Wait) never
\* changes a reason that is already latched, and nothing changes the tomb once it
\* is dead; all values returned by Wait()/Stop() are equal, and equal to the
\* tomb's reason, whatever further Kill() calls are made.
C12_StepOK ==
  /\ (pc' = pc /\ tomb.reason # ErrStillAlive) => tomb'.reason = tomb.reason
  /\ tomb.dead => tomb' = tomb
  /\ \A c \in Callers : (Returned(c) /\ cpc'[c] = cpc[c]) => result'[c] = result[c]

C12_StateOK ==
  /\ ~tomb.panicked
  /\ \A c, d \in Callers : (Returned(c) /\ Returned(d)) => result[c] = result[d]
  /\ \A c \in Callers : Returned(c) => result[c] = tomb.reason

C12_KillIdempotentWaitStable == [](C12_StateOK) /\ [][C12_StepOK]_vars

C12_Witness ==
  \E c, d \in Callers :
    /\ c # d
    /\ result[c] = HandlerError
    /\ result[d] = HandlerError
    /\ killPc = "exited"

\* C13: while SetUp has succeeded, nobody has called Kill()/Stop() and no Handle
\* call has failed, the tomb is neither dying nor dead, the loop is at its select
\* or inside Handle, and no Wait() has returned or got past the dead signal; once
\* the tomb is dead a waiting caller can proceed at once.
C13_WaitBlocksWhileAlive ==
  /\ (Adopted /\ ~killed /\ failedAt = 0) =>
       /\ ~tomb.dying
       /\ ~tomb.dead
       /\ pc \in {"select", "inHandle"}
       /\ \A c \in Callers : ~Returned(c) /\ cpc[c] # "woken"
  /\ \A c \in Callers : (tomb.dead /\ cpc[c] = "waiting") => ENABLED WaitWake(c)

C13_Witness ==
  /\ Adopted /\ ~killed /\ failedAt = 0
  /\ HandlerCount = 2
  /\ pc = "select"
  /\ \A c \in Callers : cpc[c] = "waiting"

\* C14: under fair scheduling, once Kill()/Stop() has been called the tomb
\* eventually becomes dead, and every caller waiting in Wait()/Stop() eventually
\* has it return nil or one concrete error, also while notifications keep
\* arriving and when the Kill came before SetUp returned.
ConcreteResults == {Nil, SetupError, HandlerError, StopError, NilWatcherError}

C14_ShutdownLiveness ==
  /\ killed ~> tomb.dead
  /\ \A c \in Callers :
       (killed /\ cpc[c] = "waiting") ~>
         (cpc[c] = "idle" /\ result[c] \in ConcreteResults)

C14_Witness ==
  \E c \in Callers :
    /\ killPc = "inSetUp"
    /\ Adopted
    /\ tomb.dead
    /\ cpc[c] = "idle"
    /\ result[c] \in ConcreteResults
    /\ HandlerCount = 2

\* C15: SetUp is called at most once and TearDown at most once; TearDown is
\* logged only after SetUp has returned and after the setup entry; once the
\* goroutine has exited both have been called exactly once; and once the tomb is
\* dead the loop takes no further step and logs no further call.
C15_StateOK ==
  /\ Count(log, "setup") <= 1
  /\ Count(log, "teardown") <= 1
  /\ Index("teardown") # 0 =>
       /\ w # None
       /\ Index("setup") # 0
       /\ Index("setup") < Index("teardown")
  /\ pc \notin {"spawned"} => Count(log, "setup") = 1
  /\ pc = "exited" => (Count(log, "setup") = 1 /\ Count(log, "teardown") = 1)
  /\ tomb.dead => pc = "exited"

C15_StepOK == tomb.dead => (pc' = pc /\ log' = log)

C15_SetUpTearDownOnce == [](C15_StateOK) /\ [][C15_StepOK]_vars

C15_Witness ==
  /\ killPc = "spawned"
  /\ tomb.dead
  /\ Adopted
  /\ log = <<"setup", "handler", "stop", "teardown">>
  /\ \E c \in Callers : Returned(c) /\ cpc[c] = "waiting"

\* C16: a step in which a caller enters Stop() changes the tomb exactly as
\* Kill() would (tomb.Kill(nil)) and leaves the caller inside tomb.Wait; once
\* Kill() or Stop() has been called the tomb is dying with a reason latched; a
\* Stop()/Wait() gets past the dead signal only when the tomb is dead, returns the
\* tomb's reason, and once the tomb is dead a waiting caller can proceed at once.
C16_StepOK ==
  \A c \in Callers :
    (cpc[c] = "idle" /\ cpc'[c] = "waiting" /\ stopCalled' /\ (killed' # killed \/ stopCalled' # stopCalled)) =>
      tomb' = TombKill(tomb, Nil)

C16_StateOK ==
  /\ killed => (tomb.dying /\ tomb.reason # ErrStillAlive)
  /\ \A c \in Callers :
       /\ (cpc[c] = "woken" \/ Returned(c)) => tomb.dead
       /\ Returned(c) => result[c] = tomb.reason
       /\ (tomb.dead /\ cpc[c] = "waiting") => ENABLED WaitWake(c)

C16_StopIsKillThenWait == [](C16_StateOK) /\ [][C16_StepOK]_vars

C16_Witness ==
  \E c, d \in Callers :
    /\ c # d
    /\ stopCalled
    /\ killPc = "inHandle"
    /\ Returned(c) /\ cpc[c] = "idle"
    /\ Returned(d) /\ cpc[d] = "idle"
    /\ result[c] = Nil /\ result[d] = Nil

\* C17: a reason that is neither nil nor ErrStillAlive is never changed by any
\* later step (Kill(nil), the loop's result, a release error); a nil reason left
\* by Kill() is replaced when the loop's result, a real error, is latched; so when
\* the first Kill() came while a Handle call was in flight, a Handle call returned
\* an error and the release reported none, Wait()/Stop() return the Handle error.
C17_StepOK ==
  /\ tomb.reason \notin {Nil, ErrStillAlive} => tomb'.reason = tomb.reason
  /\ (pc = "latch" /\ pc' = "done" /\ tomb.reason = Nil /\ ret # ErrDying) =>
       tomb'.reason = ret

C17_StateOK ==
  (killPc = "inHandle" /\ failedAt # 0 /\ stopRet = Nil) =>
    /\ pc = "exited" => tomb.reason = HandlerError
    /\ \A c \in Callers : Returned(c) => result[c] = HandlerError

C17_FirstGenuineErrorWins == [](C17_StateOK) /\ [][C17_StepOK]_vars

C17_Witness ==
  \E c \in Callers :
    /\ killPc = "inHandle"
    /\ HandlerCount = 1
    /\ failedAt = 1
    /\ stopRet = Nil
    /\ result[c] = HandlerError

\* C18 (as claimed): once Kill() has been called, the loop takes the shutdown
\* branch the next time it is at the select, so no Handle call starts from a
\* select reached after the Kill, even with a live watcher.
C18_NoHandleAfterKill ==
  [][(killed /\ ~closed /\ pc = "select") => pc' # "inHandle"]_vars

\* C18 (amended): a Kill() during a Handle call in flight leaves that call and
\* the loop's state untouched; the loop leaves the select by the shutdown branch
\* only when the tomb is dying, returning ErrDying; with the tomb dying that
\* branch is ready at every visit of the select, and it is the loop's only step
\* there when no notification is ready (no sender, channel not closed).
C18_StepOK ==
  /\ (pc = "inHandle" /\ tomb'.dying /\ ~tomb.dying) =>
       (pc' = "inHandle" /\ log' = log /\ ret' = ret /\ failedAt' = failedAt)
  /\ (pc = "select" /\ pc' = "watcherStop") => (tomb.dying /\ ret' = ErrDying)
  /\ (pc = "select" /\ tomb.dying /\ ~pending /\ ~closed /\ pc' # pc) =>
       pc' = "watcherStop"

C18_StateOK == (pc = "select" /\ tomb.dying) => ENABLED SelectDying

C18_KillObservedAtWaitStep == [](C18_StateOK) /\ [][C18_StepOK]_vars

C18_Witness ==
  /\ killPc = "inHandle"
  /\ ~closed
  /\ Delivered = 2
  /\ HandlerCount = 2
  /\ failedAt = 0
  /\ ret = ErrDying
  /\ pc = "exited"

\* C19 (as claimed): after LoggingConfig the result has one entry per entity, in
\* order; an entity that AuthOwner refuses gets the permission error and no
\* config; an authorized entity gets the environment's logging configuration and
\* no error when EnvironConfig succeeded, and EnvironConfig's error, with no use
\* of the missing config, when it failed.
C19_LoggingConfigPerEntity ==
  api.call = "LoggingConfig" =>
    /\ ~api.panicked
    /\ Len(api.results) = Len(api.args)
    /\ \A i \in 1..Len(api.args) :
         IF ~AuthOwner(api.args[i])
         THEN api.results[i] = [result |-> Empty, error |-> ErrPerm]
         ELSE IF api.configErr = Nil
              THEN api.results[i] = [result |-> EnvLoggingConfig, error |-> Nil]
              ELSE api.results[i] = [result |-> Empty, error |-> api.configErr]

\* C20: after WatchLoggingConfig the result has one entry per entity, in order;
\* an entity that AuthOwner refuses has the permission error and no watcher id;
\* one watcher was started per authorized entity; an authorized entity has a nil
\* error and a watcher id of its own, newly registered, exactly when its watcher
\* delivered the initial event, and the watcher's error and no id otherwise; the
\* resources grow by the watchers registered.  Without an end point (NewLoggerAPI
\* refused) nothing is ever registered.
C20_WatchLoggingConfigPerEntity ==
  /\ api.facade # "loggerAPI" => (api.resources = 0 /\ api.call = None)
  /\ api.call = "WatchLoggingConfig" =>
       LET n == Len(api.args)
           auth == {i \in 1..n : AuthOwner(api.args[i])}
           good == {i \in auth : api.oks[i]}
       IN /\ Len(api.results) = n
          /\ api.started = Cardinality(auth)
          /\ \A i \in (1..n) \ auth : api.results[i] = [id |-> 0, error |-> ErrPerm]
          /\ \A i \in auth \ good : api.results[i] = [id |-> 0, error |-> WatcherError]
          /\ \A i \in good :
               /\ api.results[i].error = Nil
               /\ api.results[i].id \in (api.resources - Cardinality(good) + 1)..api.resources
          /\ \A i, j \in good : i # j => api.results[i].id # api.results[j].id
          /\ api.resources >= Cardinality(good)

C20_Witness ==
  /\ api.call = "WatchLoggingConfig"
  /\ api.calls = 2
  /\ api.args = <<"own", "other">>
  /\ api.owned = {"own"}
  /\ api.results = <<[id |-> 2, error |-> Nil], [id |-> 0, error |-> ErrPerm]>>

====
